---- MODULE Spec2Model ----
(***************************************************************************)
(* Model of checker.py: IntegrityChecker (baseline of SHA-256 digests of   *)
(* the regular files of one directory, single-file integrity check with a  *)
(* compromise timestamp) and ChangeHandler (watchdog callbacks), together  *)
(* with the start-up sequence of __main__.                                 *)
(*                                                                         *)
(* A path is a pair <<directory part, entry name>>: <<"", n>> is the bare  *)
(* relative name n, <<".", n>> is "./n" and <<Cwd, n>> is the absolute     *)
(* path. The process's working directory is Cwd and the monitored          *)
(* directory is Cwd itself, configured either as "." or as its absolute    *)
(* name. A file's content is a record: [data |-> n] for a user file, [json *)
(* |-> m] for the text json.dump writes for the dict m. The digest of a    *)
(* user file is [sha256 |-> content]: equal contents have equal digests    *)
(* and different contents have different digests. A JSON text that holds a *)
(* digest of an earlier JSON text (the hash file hashed as a monitored     *)
(* file) is identified, for hashing, by its generation: the number of      *)
(* hash-file digests nested in it. The program compares the digest of the  *)
(* hash file only with the digest stored for it, which was taken from the  *)
(* text the current one replaced and lies one generation below;            *)
(* NestedTexts states this of every reachable state. Other processes write *)
(* and delete the user files only.                                         *)
(*                                                                         *)
(* The program has two threads: the main thread (pc) and the thread that   *)
(* Observer() starts (observer), which calls the handlers. Spec takes each *)
(* operation as one step; SpecSteps takes the entry into an operation and  *)
(* its return as two steps, the operation's effect being that of the       *)
(* return.                                                                 *)
(***************************************************************************)
EXTENDS Integers, Sequences, FiniteSets, TLC

\* ---- bounds ----
MaxTime == 1        \* the clock runs over 0..MaxTime
MaxContent == 2     \* user files hold one of the contents 1..MaxContent
MaxRebuilds == 1    \* on_created starts save_hashes() at most this many times

\* ---- the file system the program runs on ----
Cwd == "/d"
HashName == "hashes.json"
Files == {"a.txt", "b.txt"}
SubDirs == {"sub"}
Names == Files \cup {HashName} \cup SubDirs
DirForms == {".", Cwd}
Contents == {[data |-> c] : c \in 1..MaxContent}

\* Python's None for saved_hash, and for last_compromised_time
None == [none |-> TRUE]
NoneTime == -1

\* os.path.join(d, n)
join(d, n) == <<d, n>>

AbsPaths == {join(Cwd, n) : n \in Names}
UserPaths == {join(Cwd, n) : n \in Files}

\* the directory entry a path designates
basename(p) == p[2]

\* os.path.abspath: a relative path is resolved against the working directory
abspath(p) == join(Cwd, basename(p))

VARIABLES
    directory,              \* self.directory
    hash_file,              \* self.hash_file
    saved_hashes,           \* self.saved_hashes
    last_alert_time,        \* self.last_alert_time
    alert_cooldown,         \* self.alert_cooldown
    last_compromised_time,  \* self.last_compromised_time
    fs,                     \* regular files of the directory: name -> content
    now,                    \* the latest reading of time.time()
    pc,                     \* position of __main__ (the main thread)
    observer,               \* the observer thread: "stopped", "idle", or the handler it is in
    origin,                 \* the assignment self.saved_hashes holds: "empty" (line 31),
                            \* "loaded" (line 38) or "rebuilt" (line 61)
    rebuilds,               \* number of save_hashes() calls started by on_created
    out,                    \* observations printed by the last operation
    raised,                 \* exception that escaped the last operation
    mismatchSince           \* per user file (by absolute path): the time of its first mismatching
                            \* comparison since its last matching one (the start of its current run
                            \* of mismatches), or NoneTime

vars == <<directory, hash_file, saved_hashes, last_alert_time, alert_cooldown,
          last_compromised_time, fs, now, pc, observer, origin, rebuilds, out, raised,
          mismatchSince>>

config == <<directory, hash_file, last_alert_time, alert_cooldown>>
history == <<mismatchSince>>

\* os.listdir(self.directory)
listdir(files) == DOMAIN files \cup SubDirs

\* os.path.isfile / os.path.exists
isfile(files, p) == basename(p) \in DOMAIN files

\* json.dump of a dict of strings: the text of a JSON object, its members
\* being the "key": value pairs of the dict
json_dump(m) == [json |-> {<<k, m[k]>> : k \in DOMAIN m}]

\* json.load of such a text: the dict of its members
json_load(c) ==
    [k \in {member[1] : member \in c.json} |-> (CHOOSE member \in c.json : member[1] = k)[2]]

\* the hash file as open(self.hash_file, 'w') leaves it before json.dump has
\* written: an empty text, which json.load rejects
Truncated == [text |-> ""]
valid_json(c) == "json" \in DOMAIN c

\* the number of hash-file digests nested in the dict m
generation(m) ==
    IF join(Cwd, HashName) \in DOMAIN m THEN m[join(Cwd, HashName)].sha256.gen + 1 ELSE 0

\* hashlib.sha256 of a content
sha256(c) ==
    IF valid_json(c) THEN [sha256 |-> [gen |-> generation(json_load(c))]] ELSE [sha256 |-> c]

\* calculate_hash: the digest of the file's current content (the caller has
\* established that the file can be opened)
calculate_hash(files, p) == sha256(files[basename(p)])

\* dict.get
Get(m, k) == IF k \in DOMAIN m THEN m[k] ELSE None

Remove(files, n) == [k \in DOMAIN files \ {n} |-> files[k]]
Put(files, n, c) == [k \in DOMAIN files \cup {n} |-> IF k = n THEN c ELSE files[k]]


\* ---- IntegrityChecker ----

\* the names save_hashes hashes: listed, regular file, and not textually the
\* stored hash_file path
tracked(dir, hf, files) ==
    {n \in listdir(files) : isfile(files, join(dir, n)) /\ join(dir, n) # hf}

\* the dict save_hashes builds: absolute path -> digest of the current content
build_hashes(dir, hf, files) ==
    LET keys == {abspath(join(dir, n)) : n \in tracked(dir, hf, files)}
    IN  [k \in keys |-> calculate_hash(files, k)]

\* check_integrity without its 'saved_hash is None' branch
check_branch_no_unknown(saved_hash, current_hash, lct) ==
    IF current_hash # saved_hash
    THEN (IF lct = NoneTime THEN "alert" ELSE "suppressed")
    ELSE (IF lct # NoneTime THEN "restored" ELSE "quiet")

\* check_integrity with its alert gated by the cooldown as well: no alert
\* sooner than alert_cooldown after last_alert_time
check_branch_cooldown(saved_hash, current_hash, lct) ==
    IF saved_hash = None THEN "unknown"
    ELSE IF current_hash # saved_hash
         THEN (IF lct = NoneTime /\ now - last_alert_time >= alert_cooldown
               THEN "alert" ELSE "suppressed")
         ELSE (IF lct # NoneTime THEN "restored" ELSE "quiet")

\* the branch check_integrity takes for what it read
check_branch(saved_hash, current_hash, lct) ==
    IF saved_hash = None THEN "unknown"
    ELSE IF current_hash # saved_hash
         THEN (IF lct = NoneTime THEN "alert" ELSE "suppressed")
         ELSE (IF lct # NoneTime THEN "restored" ELSE "quiet")

\* the observations printed by a branch
Unknown(p) == [kind |-> "Unknown", path |-> p, val |-> 0]
CompromiseDetected(p, t) == [kind |-> "CompromiseDetected", path |-> p, val |-> t]
CompromiseResolved(p, d) == [kind |-> "CompromiseResolved", path |-> p, val |-> d]

check_output(branch, p, t, lct) ==
    CASE branch = "unknown"  -> <<Unknown(p)>>
      [] branch = "alert"    -> <<CompromiseDetected(p, t)>>
      [] branch = "restored" -> <<CompromiseResolved(p, t - lct)>>
      [] OTHER               -> <<>>

\* last_compromised_time after a branch
check_lct(branch, t, lct) ==
    CASE branch = "alert"    -> t
      [] branch = "restored" -> NoneTime
      [] OTHER               -> lct

\* the comparisons made so far, per absolute path of a user file
history_after(branch, key, t) ==
    mismatchSince' =
        CASE key \notin UserPaths -> mismatchSince
          [] branch \in {"alert", "suppressed"} ->
               [mismatchSince EXCEPT ![key] = IF @ = NoneTime THEN t ELSE @]
          [] branch \in {"restored", "quiet"} ->
               [mismatchSince EXCEPT ![key] = NoneTime]
          [] OTHER -> mismatchSince

\* check_integrity that enters the digest of a file it has no hash for
check_integrity_learns(p, vanish, t) ==
    IF vanish \/ ~isfile(fs, p)
    THEN /\ raised' = "FileNotFoundError"
         /\ fs' = Remove(fs, basename(p))
         /\ out' = <<>>
         /\ UNCHANGED <<saved_hashes, origin, last_compromised_time, now, history>>
    ELSE LET current_hash == calculate_hash(fs, p)
             saved_hash == Get(saved_hashes, abspath(p))
             branch == check_branch(saved_hash, current_hash, last_compromised_time)
         IN  /\ raised' = "None"
             /\ now' = t
             /\ out' = check_output(branch, p, t, last_compromised_time)
             /\ last_compromised_time' = check_lct(branch, t, last_compromised_time)
             /\ history_after(branch, abspath(p), t)
             /\ saved_hashes' = IF branch = "unknown"
                                THEN Put(saved_hashes, abspath(p), current_hash)
                                ELSE saved_hashes
             /\ UNCHANGED <<origin, fs>>

\* check_integrity(file_path) reading the clock as t; vanish: the file is
\* removed before open() in calculate_hash
check_integrity(p, vanish, t) ==
    IF vanish \/ ~isfile(fs, p)
    THEN /\ raised' = "FileNotFoundError"
         /\ fs' = Remove(fs, basename(p))
         /\ out' = <<>>
         /\ UNCHANGED <<saved_hashes, origin, last_compromised_time, now, history>>
    ELSE LET current_hash == calculate_hash(fs, p)
             saved_hash == Get(saved_hashes, abspath(p))
             branch == check_branch(saved_hash, current_hash, last_compromised_time)
         IN  /\ raised' = "None"
             /\ now' = t
             /\ out' = check_output(branch, p, t, last_compromised_time)
             /\ last_compromised_time' = check_lct(branch, t, last_compromised_time)
             /\ history_after(branch, abspath(p), t)
             /\ UNCHANGED <<saved_hashes, origin, fs>>

\* save_hashes() with json.dump(self.saved_hashes, f) for json.dump(hashes, f)
save_hashes_dumps_old(vanish) ==
    /\ out' = <<>>
    /\ IF vanish \in tracked(directory, hash_file, fs)
       THEN /\ raised' = "FileNotFoundError"
            /\ fs' = Remove(fs, vanish)
            /\ UNCHANGED <<saved_hashes, origin>>
       ELSE LET hashes == build_hashes(directory, hash_file, fs)
            IN  /\ raised' = "None"
                /\ fs' = Put(fs, HashName, json_dump(saved_hashes))
                /\ saved_hashes' = hashes
                /\ origin' = "rebuilt"

\* save_hashes(); vanish: a name removed between its isfile test and open()
\* in calculate_hash, or "" for none
save_hashes(vanish) ==
    /\ out' = <<>>
    /\ IF vanish \in tracked(directory, hash_file, fs)
       THEN /\ raised' = "FileNotFoundError"
            /\ fs' = Remove(fs, vanish)
            /\ UNCHANGED <<saved_hashes, origin>>
       ELSE LET hashes == build_hashes(directory, hash_file, fs)
            IN  /\ raised' = "None"
                /\ fs' = Put(fs, HashName, json_dump(hashes))
                /\ saved_hashes' = hashes
                /\ origin' = "rebuilt"

\* save_hashes() ended by KeyboardInterrupt after open(self.hash_file, 'w') has
\* emptied the file and before json.dump has written
save_interrupted ==
    /\ out' = <<>>
    /\ raised' = "KeyboardInterrupt"
    /\ fs' = Put(fs, HashName, Truncated)
    /\ UNCHANGED <<saved_hashes, origin>>

\* ---- start-up ----

\* baselines a previous run can have left in the hash file
PriorBaselines ==
    {[k \in {join(Cwd, n) : n \in Files} |-> [sha256 |-> [data |-> 1]]]}

\* checker = IntegrityChecker(directory_to_watch): the state after construction
Init ==
    /\ directory \in DirForms
    /\ hash_file = abspath(join("", HashName))
    /\ last_alert_time = 0
    /\ alert_cooldown = 5
    /\ last_compromised_time = NoneTime
    /\ \E S \in SUBSET Files : \E user \in [S -> Contents] :
         \/ fs = user
         \/ \E b \in PriorBaselines : fs = Put(user, HashName, json_dump(b))
         \/ fs = Put(user, HashName, Truncated)
    /\ IF HashName \in DOMAIN fs
       THEN IF valid_json(fs[HashName])
            THEN /\ saved_hashes = json_load(fs[HashName])
                 /\ origin = "loaded"
                 /\ raised = "None"
            ELSE /\ saved_hashes = <<>>
                 /\ origin = "empty"
                 /\ raised = "JSONDecodeError"
       ELSE /\ saved_hashes = <<>>
            /\ origin = "empty"
            /\ raised = "None"
    /\ pc = IF raised = "None" THEN "constructed" ELSE "crashed"
    /\ now = 0
    /\ observer = "stopped"
    /\ rebuilds = 0
    /\ out = <<>>
    /\ mismatchSince = [k \in UserPaths |-> NoneTime]

\* checker.save_hashes() of __main__; an exception ends the program
startup_save ==
    /\ \/ \E vanish \in Files \cup {""} : save_hashes(vanish)
       \/ save_interrupted
    /\ pc' = IF raised' = "None" THEN "rebuilt" ELSE "crashed"
    /\ UNCHANGED <<config, last_compromised_time, now, observer, rebuilds, history>>

StartupSave ==
    /\ pc = "constructed"
    /\ startup_save

\* __main__ with observer.start() moved before checker.save_hashes()
ObserverStartsFirst ==
    /\ pc = "constructed"
    /\ observer = "stopped"
    /\ observer' = "idle"
    /\ out' = <<>>
    /\ raised' = "None"
    /\ UNCHANGED <<config, saved_hashes, origin, last_compromised_time, fs, now, pc, rebuilds,
                   history>>

\* observer.schedule(...); observer.start(): the observer thread begins to
\* take events, the main thread goes on to its sleep loop
ObserverStart ==
    /\ pc = "rebuilt"
    /\ observer = "stopped"
    /\ pc' = "watching"
    /\ observer' = "idle"
    /\ out' = <<>>
    /\ raised' = "None"
    /\ UNCHANGED <<config, saved_hashes, origin, last_compromised_time, fs, now, rebuilds,
                   history>>

\* ---- ChangeHandler ----

Ignored ==
    /\ out' = <<>>
    /\ raised' = "None"
    /\ UNCHANGED <<saved_hashes, origin, last_compromised_time, fs, now, rebuilds, history>>

\* the clock does not run backwards: a reading is the previous one or later
Readings == {t \in 0..MaxTime : t >= now}

\* on_modified(event), event.src_path = the watched path joined with the name;
\* a user file can be removed between the handler's isfile test and open()
on_modified(n) ==
    /\ LET src_path == join(directory, n)
       IN  IF isfile(fs, src_path) /\ src_path # hash_file
           THEN /\ \/ n \in Files /\ check_integrity(src_path, TRUE, now)
                   \/ \E t \in Readings : check_integrity(src_path, FALSE, t)
                /\ UNCHANGED rebuilds
           ELSE Ignored
    /\ UNCHANGED <<config, pc>>

\* on_created(event)
on_created(n) ==
    /\ LET src_path == join(directory, n)
       IN  IF isfile(fs, src_path)
           THEN /\ rebuilds < MaxRebuilds
                /\ rebuilds' = rebuilds + 1
                /\ \E vanish \in Files \cup {""} : save_hashes(vanish)
                /\ UNCHANGED <<last_compromised_time, now, history>>
           ELSE Ignored
    /\ UNCHANGED <<config, pc>>

\* the observer thread takes one event from its queue and runs the handler to
\* its end before it takes the next
OnModified(n) ==
    /\ observer = "idle"
    /\ on_modified(n)
    /\ UNCHANGED observer

OnCreated(n) ==
    /\ observer = "idle"
    /\ on_created(n)
    /\ UNCHANGED observer

\* a direct call of checker.check_integrity(file_path)
CheckIntegrity(p) ==
    /\ pc = "watching"
    /\ IF isfile(fs, p)
       THEN \E t \in Readings : check_integrity(p, FALSE, t)
       ELSE check_integrity(p, FALSE, now)
    /\ UNCHANGED <<config, pc, observer, rebuilds>>

\* ---- the environment ----

Env ==
    /\ pc # "crashed"
    /\ out' = <<>>
    /\ raised' = "None"
    /\ UNCHANGED <<config, saved_hashes, origin, last_compromised_time, now, pc, observer,
                   rebuilds, history>>

\* somebody writes a user file (creating it if needed)
WriteFile(n, c) ==
    /\ Get(fs, n) # c
    /\ fs' = Put(fs, n, c)
    /\ Env

\* somebody deletes a user file
DeleteFile(n) ==
    /\ n \in DOMAIN fs
    /\ fs' = Remove(fs, n)
    /\ Env

\* the paths check_integrity is called with: those the directory listing and
\* the events give for the files of the directory
CheckPaths == {join(directory, n) : n \in Files \cup {HashName}}

Next ==
    \/ StartupSave
    \/ ObserverStart
    \/ \E n \in Names : OnModified(n)
    \/ \E n \in Names : OnCreated(n)
    \/ \E p \in CheckPaths : CheckIntegrity(p)
    \/ \E n \in Files, c \in Contents : WriteFile(n, c)
    \/ \E n \in Files : DeleteFile(n)

Spec == Init /\ [][Next]_vars

\* ---- the same program, an operation taking two steps ----

\* every variable but the positions of the two threads
data == <<config, saved_hashes, origin, last_compromised_time, fs, now, rebuilds, out, raised,
          history>>

\* the main thread enters checker.save_hashes()
EnterStartupSave ==
    /\ pc = "constructed"
    /\ pc' = "saving"
    /\ UNCHANGED <<data, observer>>

\* the main thread returns from it
ReturnStartupSave ==
    /\ pc = "saving"
    /\ startup_save

\* the observer thread calls the handler of the event it took
Enter(h) ==
    /\ observer = "idle"
    /\ observer' = h
    /\ UNCHANGED <<data, pc>>

\* the handler returns
ReturnModified(n) ==
    /\ observer = "on_modified"
    /\ on_modified(n)
    /\ observer' = "idle"

ReturnCreated(n) ==
    /\ observer = "on_created"
    /\ on_created(n)
    /\ observer' = "idle"

NextSteps ==
    \/ EnterStartupSave
    \/ ReturnStartupSave
    \/ ObserverStart
    \/ \E h \in {"on_modified", "on_created"} : Enter(h)
    \/ \E n \in Names : ReturnModified(n)
    \/ \E n \in Names : ReturnCreated(n)
    \/ \E n \in Files, c \in Contents : WriteFile(n, c)
    \/ \E n \in Files : DeleteFile(n)

SpecSteps == Init /\ [][NextSteps]_vars

\* the digest stored for the hash file is the digest of the text that the
\* current text of the hash file replaced
NestedTexts ==
    (pc # "constructed" /\ hash_file \in DOMAIN saved_hashes /\ HashName \in DOMAIN fs) =>
        /\ json_load(fs[HashName])[hash_file] = saved_hashes[hash_file]
        /\ generation(json_load(fs[HashName])) = saved_hashes[hash_file].sha256.gen + 1

TypeOK ==
    /\ directory \in DirForms
    /\ last_compromised_time \in {NoneTime} \cup (0..MaxTime)
    /\ now \in 0..MaxTime
    /\ pc \in {"constructed", "saving", "rebuilt", "watching", "crashed"}
    /\ observer \in {"stopped", "idle", "on_modified", "on_created"}
    /\ origin \in {"empty", "loaded", "rebuilt"}
    /\ DOMAIN fs \subseteq Files \cup {HashName}
    /\ DOMAIN saved_hashes \subseteq AbsPaths

\* ---- the steps the properties speak about ----

\* the spellings of the paths of the user files
AllPaths == {join(d, n) : d \in DirForms, n \in Files}

\* save_hashes() has completed and every user file is as it was hashed
Fresh ==
    /\ pc = "watching"
    /\ \A n \in Files :
          /\ n \in DOMAIN fs <=> join(Cwd, n) \in DOMAIN saved_hashes
          /\ n \in DOMAIN fs => saved_hashes[join(Cwd, n)] = sha256(fs[n])

\* a step in which check_integrity(p) runs, called directly or by on_modified
Checks(p) ==
    \/ p \in CheckPaths /\ CheckIntegrity(p)
    \/ \E n \in Names : /\ p = join(directory, n)
                        /\ isfile(fs, p) /\ p # hash_file
                        /\ OnModified(n)

\* a step in which check_integrity(p) hashes the file and reaches its comparison
Compares(p) == pc = "watching" /\ isfile(fs, p) /\ raised' = "None" /\ Checks(p)

saved(p) == Get(saved_hashes, abspath(p))
Mismatches(p) == isfile(fs, p) /\ saved(p) # None /\ calculate_hash(fs, p) # saved(p)
Matches(p) == isfile(fs, p) /\ saved(p) # None /\ calculate_hash(fs, p) = saved(p)

\* a step in which save_hashes() runs, at start-up or called by on_created
Rebuilds ==
    \/ StartupSave
    \/ \E n \in Names : isfile(fs, join(directory, n)) /\ OnCreated(n)

Kinds(o) == {o[i].kind : i \in DOMAIN o}

\* the compromise recorded in last_compromised_time is the one of the user file
\* with absolute path k: k is in a run of mismatches and no other monitored
\* path is, the hash file never having been in the baseline
OnlyRecord(k) ==
    /\ last_compromised_time # NoneTime
    /\ mismatchSince[k] # NoneTime
    /\ \A j \in UserPaths \ {k} : mismatchSince[j] = NoneTime
    /\ hash_file \notin DOMAIN saved_hashes

\* the observation the specification names for a failed hash computation
Vanished(p) == [kind |-> "Vanished", path |-> p, val |-> 0]

\* ---- properties ----

\* C1: a mismatching check of a user file f whose own state is MATCHING (no run of
\* mismatches of f is in progress) records the compromise at the current time
\* and prints CompromiseDetected(f, now), whatever the state of other paths.
C1_PerPathDetection ==
    [][\A p \in AllPaths :
         (mismatchSince[abspath(p)] = NoneTime /\ Mismatches(p) /\ Compares(p))
            => /\ out' = <<CompromiseDetected(p, now')>>
               /\ last_compromised_time' = now']_vars

\* C2: in a run of mismatching checks of f, the first check prints exactly one
\* CompromiseDetected(f), and every later check of the run prints none and
\* leaves the recorded time as it is.
C2_MismatchDebounce ==
    [][\A p \in AllPaths :
         (Mismatches(p) /\ Compares(p))
            => IF mismatchSince[abspath(p)] = NoneTime
               THEN out' = <<CompromiseDetected(p, now')>>
               ELSE /\ "CompromiseDetected" \notin Kinds(out')
                    /\ last_compromised_time' = last_compromised_time]_vars

\* C3: a matching check of f at t1 while f is MISMATCHED(since = t0) prints
\* CompromiseResolved(f, t1 - t0) with t1 - t0 >= 0, t0 being the time f's own
\* mismatch was detected, and returns f to MATCHING.
C3_RestorationDuration ==
    [][\A p \in AllPaths :
         (mismatchSince[abspath(p)] # NoneTime /\ Matches(p) /\ Compares(p))
            => /\ out' = <<CompromiseResolved(p, now' - mismatchSince[abspath(p)])>>
               /\ now' - mismatchSince[abspath(p)] >= 0
               /\ last_compromised_time' = NoneTime]_vars

\* C4: a matching check of a path f whose own state is MATCHING prints nothing
\* (so no CompromiseResolved(f) without a CompromiseDetected(f) before it).
C4_QuietWhenMatching ==
    [][\A p \in AllPaths :
         (mismatchSince[abspath(p)] = NoneTime /\ Matches(p) /\ Compares(p))
            => out' = <<>>]_vars

\* C5: a check of any regular file of the directory made after save_hashes()
\* has completed, every user file being as save_hashes() read it, prints no
\* CompromiseDetected.
C5_IdempotentAfterRebuild ==
    [][\A p \in {join(d, n) : d \in DirForms, n \in Names} :
         (Fresh /\ isfile(fs, p) /\ Checks(p)) => "CompromiseDetected" \notin Kinds(out')]_vars

\* C6: a modified or created event for the hash file is ignored: it prints
\* nothing, raises nothing and changes neither the baseline, the hash file nor
\* the compromise state.
C6_SelfExclusion ==
    [][(OnModified(HashName) \/ OnCreated(HashName))
          => /\ out' = <<>>
             /\ raised' = "None"
             /\ UNCHANGED <<saved_hashes, fs, last_compromised_time, mismatchSince>>]_vars

\* C7: after a save_hashes() every key of the in-memory baseline is an absolute
\* path and the hash file's own path is not a key.
C7_BaselineKeys ==
    pc \in {"rebuilt", "watching"} =>
        /\ DOMAIN saved_hashes \subseteq AbsPaths
        /\ hash_file \notin DOMAIN saved_hashes

\* C8: a check of a file that is missing when it is hashed prints Vanished(f),
\* raises nothing and leaves the baseline and the compromise state unchanged.
C8_VanishedIsAValue ==
    [][\A p \in {join(d, n) : d \in DirForms, n \in Names} :
         (~isfile(fs', p) /\ Checks(p))
            => /\ raised' = "None"
               /\ out' = <<Vanished(p)>>
               /\ UNCHANGED <<saved_hashes, last_compromised_time, mismatchSince>>]_vars

\* C9: save_hashes() completes when a file disappears between the listing and
\* its hashing: nothing is raised, every listed file still present is in the
\* new baseline, and the new baseline is written to the hash file.
C9_RebuildIsolatesFailures ==
    [][(Rebuilds /\ raised' # "KeyboardInterrupt")
          => /\ raised' = "None"
             /\ \A n \in tracked(directory, hash_file, fs) \cap DOMAIN fs' :
                    join(Cwd, n) \in DOMAIN saved_hashes'
             /\ HashName \in DOMAIN fs' /\ json_load(fs'[HashName]) = saved_hashes']_vars

\* C10: a check of an existing file that has no entry in the baseline prints
\* Unknown(f) only and leaves the compromise state of every path as it was.
C10_UntrackedPath ==
    [][\A p \in AllPaths :
         (saved(p) = None /\ Compares(p))
            => /\ out' = <<Unknown(p)>>
               /\ last_compromised_time' = last_compromised_time
               /\ mismatchSince' = mismatchSince
               /\ saved_hashes' = saved_hashes]_vars

\* an untracked file has been checked while a compromise was recorded
C10_Witness ==
    /\ out # <<>>
    /\ out[1].kind = "Unknown"
    /\ abspath(out[1].path) \notin DOMAIN saved_hashes
    /\ last_compromised_time # NoneTime
    /\ \E k \in UserPaths : mismatchSince[k] # NoneTime

C12_CrashSafePersistence ==
    [][Rebuilds
          => \/ Get(fs', HashName) = Get(fs, HashName)
             \/ Get(fs', HashName) = json_dump(build_hashes(directory, hash_file, fs))]_vars

\* C13: whenever save_hashes() has completed, the dict stored in the hash file
\* is the in-memory baseline, and the baseline a new IntegrityChecker loads
\* from a hash file is the dict that was dumped into it.
C13_RoundTrip ==
    /\ (pc \in {"rebuilt", "watching"})
          => /\ HashName \in DOMAIN fs
             /\ json_load(fs[HashName]) = saved_hashes
             /\ json_load(json_dump(saved_hashes)) = saved_hashes
    /\ (pc = "constructed" /\ HashName \in DOMAIN fs)
          => /\ saved_hashes = json_load(fs[HashName])
             /\ \A b \in PriorBaselines :
                    fs[HashName] = json_dump(b) => saved_hashes = b

\* a save_hashes() started by on_created has replaced a non-empty baseline and
\* its hash file
C13_Witness ==
    /\ pc = "watching"
    /\ rebuilds > 0
    /\ raised = "None"
    /\ UserPaths \subseteq DOMAIN saved_hashes
    /\ json_load(fs[HashName]) = saved_hashes

\* C14: when a save_hashes() drops from the baseline a path whose compromise
\* is the one on record, the record is destroyed: no compromise time is left
\* that a later check of another path would be suppressed by or would report
\* as resolved.
C14_RecordLifetime ==
    [][\A k \in UserPaths :
         (OnlyRecord(k) /\ k \in DOMAIN saved_hashes /\ Rebuilds /\ k \notin DOMAIN saved_hashes')
            => last_compromised_time' = NoneTime]_vars

\* C15: an IntegrityChecker constructed where there is no hash file starts with
\* an empty baseline and no error; one constructed where the hash file does
\* not hold a valid dict reports the failure and the program goes on (with an
\* empty baseline) instead of ending.
C15_LoadAtInit ==
    /\ (pc = "constructed" /\ HashName \notin DOMAIN fs)
          => (saved_hashes = <<>> /\ raised = "None")
    /\ (HashName \in DOMAIN fs /\ ~valid_json(fs[HashName]) /\ raised # "KeyboardInterrupt")
          => (pc # "crashed" /\ saved_hashes = <<>>)

\* the user files of the directory, by absolute path, with their digests
current_hashes(files) ==
    [k \in {join(Cwd, n) : n \in DOMAIN files \cap Files} |-> sha256(files[basename(k)])]

\* the part of a baseline that is about user files
user_part(m) == [k \in DOMAIN m \cap UserPaths |-> m[k]]

\* C16: after an on_created event for a regular file has been handled, the
\* in-memory baseline maps exactly the user files present to the digests of
\* their current contents: deleted files have no entry, and the digest of
\* every file that was there before is recomputed.
C16_CreatedRebuildsAll ==
    [][\A n \in Names :
         (isfile(fs, join(directory, n)) /\ OnCreated(n))
            => user_part(saved_hashes') = current_hashes(fs')]_vars

\* the same of an on_created that ran to its end      (holds)
C16_WhenCompleted ==
    [][\A n \in Names :
         (isfile(fs, join(directory, n)) /\ OnCreated(n) /\ raised' = "None")
            => user_part(saved_hashes') = current_hashes(fs')]_vars

CheckStep ==
    \/ \E p \in CheckPaths : CheckIntegrity(p)
    \/ \E n \in Names : OnModified(n)

\* C18: no check_integrity call and no on_modified event changes the in-memory
\* baseline or the hash file, whatever its outcome: a step that changes one
\* of them is a save_hashes() (at start-up or by on_created) and is no check.
C18_CheckIsReadOnly ==
    [][(saved_hashes' # saved_hashes \/ Get(fs', HashName) # Get(fs, HashName))
          => (Rebuilds /\ ~CheckStep)]_vars

\* a check has found a mismatch and printed its alert; the baseline still holds
\* the old digest and the hash file still holds the baseline
C18_Witness ==
    /\ out # <<>>
    /\ out[1].kind = "CompromiseDetected"
    /\ isfile(fs, out[1].path)
    /\ saved(out[1].path) # calculate_hash(fs, out[1].path)
    /\ json_load(fs[HashName]) = saved_hashes

\* C19: while the compromise of a user file f is the one on record, the next
\* check of f reports CompromiseResolved only if f's content has the digest
\* the baseline held for f: no step, and in particular no on_created event for
\* another file, leaves f in a state whose check would report the tampered
\* content as restored.
C19_ResolvedOnlyByRestoring ==
    [][\A n \in Files :
         LET k == join(Cwd, n)
         IN  (/\ OnlyRecord(k)
              /\ k \in DOMAIN saved_hashes
              /\ n \in DOMAIN fs'
              /\ k \in DOMAIN saved_hashes'
              /\ check_branch(saved_hashes'[k], sha256(fs'[n]), last_compromised_time')
                    = "restored")
                => sha256(fs'[n]) = saved_hashes[k]]_vars

\* C20: every handler of the observer runs, and every check_integrity
\* compares, after the start-up save_hashes() has completed: the baseline a
\* check reads is one that save_hashes() computed in this run, never the dict
\* loaded from the hash file of a previous run.
C20_StartupOrdering ==
    [][origin # "rebuilt"
          => /\ ~CheckStep
             /\ ~(\E n \in Names : OnCreated(n))]_vars

\* a previous run had left a hash file (this run hashed it at start-up), and a
\* check has compared a file with the digest taken at start-up, which is not
\* the one the previous run had stored
C20_Witness ==
    /\ origin = "rebuilt"
    /\ rebuilds = 0
    /\ hash_file \in DOMAIN saved_hashes
    /\ out # <<>>
    /\ out[1].kind = "CompromiseDetected"
    /\ \A b \in PriorBaselines : saved(out[1].path) # Get(b, abspath(out[1].path))

====
